---- MODULE Spec2Model ----
(***************************************************************************)
(* Model of src/components/Canvas.tsx: the Stroke and Tile classes and the *)
(* pointer-event handlers of the Canvas component (startDraw, draw,        *)
(* endDraw, startErase, erase, endErase).                                  *)
(*                                                                         *)
(* Coordinates.  Pointer events carry whole pixels.  Stroke.smoothPath     *)
(* divides by 4 once per interior point, left to right, so the k-th        *)
(* interior point of a smoothed path is a multiple of 1/4^k pixel.  Every  *)
(* coordinate of the model is an integer number of 1/Scale pixel, with     *)
(* Scale = 4^(MaxPoints-2): the arithmetic of the code (exact in IEEE doubles *)
(* at these magnitudes) is then exact integer arithmetic here.             *)
(* SmoothingExact checks that no division of the model rounds.             *)
(***************************************************************************)
EXTENDS Integers, Sequences, FiniteSets, TLC

\* ------------------------------------------------------------------ bounds

\* Most points captured in a session, over all its strokes (the calls of
\* addToPath): one stroke of MaxPoints points, MaxPoints strokes of one, ...
MaxPoints == 5

\* 1/Scale pixel is the unit of every coordinate.
Scale == 4 ^ (MaxPoints - 2)

Px(n) == n * Scale

\* The pointer positions of the events, in pixels (offsetX, offsetY).
\*   PA  is within 5 of the initial last-erase position (0,0) on both axes
\*   PB  is exactly 5 from PA on the x axis
\*   PC  is 6 from PA on the x axis; 1 and 5 from PB (Euclidean > 5)
\*   POut is on the right edge x = 2000 of the only tile: outside it
PA == <<4, 4>>
PB == <<9, 4>>
PC == <<10, 9>>
POut == <<2000, 4>>

Positions == {PA, PB, PC, POut}

\* The positions at which points are captured into a stroke: one inside the
\* tile and one outside it.  Erase events visit every position.
DrawPositions == {PA, POut}

\* PointerEvent.button: -1 no button changed, 0 primary, 1 auxiliary, 2 secondary.
DownButtons == {0, 1, 2}
UpButtons == {0, 1, 2}
LeaveButton == -1

\* ------------------------------------------------------------ class Stroke

\* What JavaScript reads at an index an array does not have.
Undefined == "undefined"

\* JavaScript's zero-based array read path[k]: no index is an error.
At(path, k) == IF k + 1 \in DOMAIN path THEN path[k + 1] ELSE Undefined

\* path with path[k] = v (zero-based).
Put(path, k, v) == [path EXCEPT ![k + 1] = v]

\* Mutant of NewStroke: the id is not taken from the counter.
NewStrokeZero(id) == [id |-> 0, path |-> <<>>]

NewStroke(id) == [id |-> id, path |-> <<>>]

addToPath(stroke, offsetX, offsetY) ==
    [stroke EXCEPT !.path = Append(Append(stroke.path, offsetX), offsetY)]

getLength(stroke) == Len(stroke.path) \div 2

StrokeIsEmpty(stroke) == Len(stroke.path) = 0

getPathVertex(stroke, index) ==
    <<At(stroke.path, index * 2), At(stroke.path, index * 2 + 1)>>

\* .5**2 * x0 + 2 * .5**2 * x1 + .5**2 * x2, and the same for y.
bezier(x0, y0, x1, y1, x2, y2) ==
    [x |-> (x0 + 2 * x1 + x2) \div 4, y |-> (y0 + 2 * y1 + y2) \div 4]

\* The body of smoothPath's loop from index i on: in place, left to right.
RECURSIVE smoothFrom(_, _)
smoothFrom(stroke, i) ==
    IF i < getLength(stroke)
    THEN LET p == stroke.path
             b == bezier(At(p, i*2-4), At(p, i*2-3), At(p, i*2-2),
                         At(p, i*2-1), At(p, i*2), At(p, i*2+1))
         IN smoothFrom([stroke EXCEPT
                           !.path = Put(Put(p, i*2-2, b.x), i*2-1, b.y)],
                       i + 1)
    ELSE stroke

\* Mutant of smoothPath: the blended point is stored one vertex too far
\* (path[i*2], path[i*2+1]), so the last vertex is overwritten.
RECURSIVE smoothIntoNext(_, _)
smoothIntoNext(stroke, i) ==
    IF i < getLength(stroke)
    THEN LET p == stroke.path
             b == bezier(At(p, i*2-4), At(p, i*2-3), At(p, i*2-2),
                         At(p, i*2-1), At(p, i*2), At(p, i*2+1))
         IN smoothIntoNext([stroke EXCEPT
                              !.path = Put(Put(p, i*2, b.x), i*2+1, b.y)],
                           i + 1)
    ELSE stroke

smoothPathIntoNext(stroke) == smoothIntoNext(stroke, 2)

\* Mutant of smoothPath: every interior point is blended from the neighbours
\* as they were before the call, none from an already blended one.
smoothPathFromOriginal(stroke) ==
    LET p == stroke.path IN
    [stroke EXCEPT
       !.path = [k \in 1..Len(p) |->
                   IF k <= 2 \/ k > Len(p) - 2 THEN p[k]
                   ELSE (p[k - 2] + 2 * p[k] + p[k + 2]) \div 4]]

smoothPath(stroke) == smoothFrom(stroke, 2)

\* The vertices the iterator of a stroke yields: index 0 .. getLength-1.
Vertices(stroke) == [i \in 1..getLength(stroke) |-> getPathVertex(stroke, i - 1)]

\* -------------------------------------------------------------- class Tile

TileSize == 2000

NewTile(x, y) ==
    [startX |-> x, startY |-> y,
     endX |-> x + Px(TileSize), endY |-> y + Px(TileSize),
     strokes |-> <<>>, strokeIDs |-> <<>>]

\* Array.prototype.filter is SelectSeq.

Includes(seq, v) == \E i \in 1..Len(seq) : seq[i] = v

addStroke(tile, stroke) ==
    [tile EXCEPT !.strokes = Append(tile.strokes, stroke),
                 !.strokeIDs = Append(tile.strokeIDs, stroke.id)]

\* Mutant of removeStroke: the filters keep the ids below strokeID only.
removeStrokeAndNewer(tile, strokeID) ==
    IF ~Includes(tile.strokeIDs, strokeID) THEN tile
    ELSE LET keepStroke(s) == s.id < strokeID
             keepID(s) == s < strokeID
         IN [tile EXCEPT !.strokes = SelectSeq(tile.strokes, keepStroke),
                         !.strokeIDs = SelectSeq(tile.strokeIDs, keepID)]

removeStroke(tile, strokeID) ==
    IF ~Includes(tile.strokeIDs, strokeID) THEN tile
    ELSE LET keepStroke(s) == s.id # strokeID
             keepID(s) == s # strokeID
         IN [tile EXCEPT !.strokes = SelectSeq(tile.strokes, keepStroke),
                         !.strokeIDs = SelectSeq(tile.strokeIDs, keepID)]

TileIsEmpty(tile) == Len(tile.strokeIDs) = 0

numElements(tile) == Len(tile.strokes)

\* Mutant of enclosesVertex: the end edges belong to the tile.
enclosesVertexClosed(tile, x, y) ==
    /\ x - tile.startX >= 0
    /\ tile.endX - x >= 0
    /\ y - tile.startY >= 0
    /\ tile.endY - y >= 0

enclosesVertex(tile, x, y) ==
    /\ x - tile.startX >= 0
    /\ tile.endX - x > 0
    /\ y - tile.startY >= 0
    /\ tile.endY - y > 0

\* ------------------------------------------------------- helper functions

Abs(n) == IF n < 0 THEN -n ELSE n

\* Mutant of withinSquare: the comparisons are strict.
withinSquareStrict(x1, y1, x2, y2, length) ==
    Abs(x1 - x2) < length /\ Abs(y1 - y2) < length

withinSquare(x1, y1, x2, y2, length) ==
    Abs(x1 - x2) <= length /\ Abs(y1 - y2) <= length

\* The index in tiles of the first tile enclosing (x, y); 0 stands for null.
getTile(tiles, x, y) ==
    IF \E k \in 1..Len(tiles) : enclosesVertex(tiles[k], x, y)
    THEN CHOOSE k \in 1..Len(tiles) :
            /\ enclosesVertex(tiles[k], x, y)
            /\ \A j \in 1..(k - 1) : ~enclosesVertex(tiles[j], x, y)
    ELSE 0

\* ------------------------------------------------------- Canvas component

VARIABLES
    isDrawing,      \* line 165
    isErasing,      \* line 166
    currStroke,     \* line 167: the stroke being captured
    masterId,       \* line 7: Stroke.masterId, the next stroke id
    onScreenTiles,  \* line 169
    lastX, lastY,   \* line 260: the last processed erase position
    redrawn,        \* the call of redraw the last handler made, if any
    threw,          \* whether the last handler ended in an uncaught TypeError
    did,            \* history: the branches the last handler took
    gesture,        \* history: the events captured into currStroke so far
    erased,         \* history: the strokes erased so far, and where
    nCaptured,      \* history: the number of points captured so far
    call            \* the last direct call of a Stroke or Tile method (class
                    \* level specifications StrokeSpec and TileSpec only)

vars == <<isDrawing, isErasing, currStroke, masterId, onScreenTiles,
          lastX, lastY, redrawn, threw, did, gesture, erased, nCaptured,
          call>>

\* The component's variables as one record, which the handlers transform.
Canvas ==
    [isDrawing |-> isDrawing, isErasing |-> isErasing,
     currStroke |-> currStroke, masterId |-> masterId,
     onScreenTiles |-> onScreenTiles, lastX |-> lastX, lastY |-> lastY,
     redrawn |-> redrawn, threw |-> threw, did |-> did, gesture |-> gesture,
     erased |-> erased, nCaptured |-> nCaptured]

NoRedraw == [called |-> FALSE, strokes |-> <<>>]

NoEvent == <<>>

\* No method was called directly: the handlers of the component call them.
NoCall == [op |-> "none", arg |-> <<>>, threw |-> FALSE, result |-> <<>>]

\* The gesture history: the positions captured into currStroke since Idle, kept
\* while the gesture is one primary-button-down followed by pointer-moves
\* (simple); a second primary-button-down inside the gesture ends the record.
NoGesture == [simple |-> TRUE, captured |-> <<>>]

NotSimple == [simple |-> FALSE, captured |-> <<>>]

\* What a handler starts from: nothing redrawn, nothing thrown yet.
Enter(c, handler) ==
    [c EXCEPT !.redrawn = NoRedraw, !.threw = FALSE,
              !.did = [leave |-> handler = "pointerLeave", began |-> FALSE,
                       draw |-> "none", erase |-> "none", at |-> NoEvent,
                       gesture |-> NoGesture]]

\* A pointer event: its button and its offsetX, offsetY in model units.
Event(button, pos) ==
    [button |-> button, offsetX |-> Px(pos[1]), offsetY |-> Px(pos[2]), pos |-> pos]

eraseSize == 5

moveThreshold == 5

\* ------------------------------------------------------------------- draw

\* Mutant of startDraw: isDrawing is not set.
startDrawNoFlag(c, ev) ==
    [c EXCEPT !.currStroke = addToPath(c.currStroke, ev.offsetX, ev.offsetY),
              !.did.draw = "capture",
              !.nCaptured = c.nCaptured + 1,
              !.gesture = IF c.gesture = NoGesture
                          THEN [simple |-> TRUE, captured |-> <<ev.pos>>]
                          ELSE NotSimple]

startDraw(c, ev) ==
    [c EXCEPT !.isDrawing = TRUE,
              !.currStroke = addToPath(c.currStroke, ev.offsetX, ev.offsetY),
              !.did.draw = "capture",
              !.nCaptured = c.nCaptured + 1,
              !.gesture = IF c.gesture = NoGesture
                          THEN [simple |-> TRUE, captured |-> <<ev.pos>>]
                          ELSE NotSimple]

\* Mutant of draw: the captured position is also kept as the last erase
\* position.
drawTracksLast(c, ev) ==
    IF ~c.isDrawing THEN c
    ELSE [c EXCEPT !.currStroke = addToPath(c.currStroke, ev.offsetX, ev.offsetY),
                   !.lastX = ev.offsetX,
                   !.lastY = ev.offsetY,
                   !.did.draw = "capture",
                   !.nCaptured = c.nCaptured + 1,
                   !.gesture = IF c.gesture.simple
                               THEN [c.gesture EXCEPT
                                       !.captured = Append(@, ev.pos)]
                               ELSE NotSimple]

draw(c, ev) ==
    IF ~c.isDrawing THEN c
    ELSE [c EXCEPT !.currStroke = addToPath(c.currStroke, ev.offsetX, ev.offsetY),
                   !.did.draw = "capture",
                   !.nCaptured = c.nCaptured + 1,
                   !.gesture = IF c.gesture.simple
                               THEN [c.gesture EXCEPT
                                       !.captured = Append(@, ev.pos)]
                               ELSE NotSimple]

\* Mutant of endDraw: no isEmpty check, an empty stroke is stored too.
endDrawUnguarded(c) ==
    LET c1 == [c EXCEPT !.isDrawing = FALSE]
        smoothed == smoothPath(c1.currStroke)
    IN [c1 EXCEPT !.onScreenTiles[1] = addStroke(c1.onScreenTiles[1], smoothed),
                  !.currStroke = NewStroke(c1.masterId),
                  !.masterId = c1.masterId + 1,
                  !.did.draw = "commit",
                  !.did.gesture = c1.gesture,
                  !.gesture = NoGesture]

\* Mutant of endDraw: the stroke is smoothed a second time before it is
\* stored.
endDrawSmoothTwice(c) ==
    LET c1 == [c EXCEPT !.isDrawing = FALSE] IN
    IF StrokeIsEmpty(c1.currStroke) THEN [c1 EXCEPT !.did.draw = "empty"]
    ELSE LET smoothed == smoothPath(smoothPath(c1.currStroke)) IN
         [c1 EXCEPT !.onScreenTiles[1] = addStroke(c1.onScreenTiles[1], smoothed),
                    !.currStroke = NewStroke(c1.masterId),
                    !.masterId = c1.masterId + 1,
                    !.did.draw = "commit",
                    !.did.gesture = c1.gesture,
                    !.gesture = NoGesture]

endDraw(c) ==
    LET c1 == [c EXCEPT !.isDrawing = FALSE] IN
    IF StrokeIsEmpty(c1.currStroke) THEN [c1 EXCEPT !.did.draw = "empty"]
    ELSE LET smoothed == smoothPath(c1.currStroke) IN
         [c1 EXCEPT !.onScreenTiles[1] = addStroke(c1.onScreenTiles[1], smoothed),
                    !.currStroke = NewStroke(c1.masterId),
                    !.masterId = c1.masterId + 1,
                    !.did.draw = "commit",
                    !.did.gesture = c1.gesture,
                    !.gesture = NoGesture]

\* ------------------------------------------------------------------ erase

\* Mutant of strokeHit: only the stroke's first vertex is tested.
strokeHitAtStart(stroke, offsetX, offsetY, size) ==
    /\ getLength(stroke) > 0
    /\ withinSquare(offsetX, offsetY, At(stroke.path, 0), At(stroke.path, 1), size)

\* for (const coord of stroke): some vertex is within size of the pointer.
strokeHit(stroke, offsetX, offsetY, size) ==
    \E k \in 1..getLength(stroke) :
        LET coord == Vertices(stroke)[k]
        IN withinSquare(offsetX, offsetY, coord[1], coord[2], size)

\* Mutant of scanFrom: the scan runs from the oldest stroke to the newest.
RECURSIVE scanOldestFirst(_, _, _, _, _)
scanOldestFirst(strokes, i, offsetX, offsetY, size) ==
    IF i < 0 THEN -1
    ELSE LET older == scanOldestFirst(strokes, i - 1, offsetX, offsetY, size)
         IN IF older >= 0 THEN older
            ELSE IF strokeHit(At(strokes, i), offsetX, offsetY, size) THEN i
                 ELSE -1

\* loop1 from index i (zero-based) down: the index of the first stroke hit,
\* or -1 when the loop runs out.
RECURSIVE scanFrom(_, _, _, _, _)
scanFrom(strokes, i, offsetX, offsetY, size) ==
    IF i < 0 THEN -1
    ELSE IF strokeHit(At(strokes, i), offsetX, offsetY, size) THEN i
         ELSE scanFrom(strokes, i - 1, offsetX, offsetY, size)

\* Mutant of splice1: the first element is removed (splice(0, 1)).
spliceFirst(seq, i) == SubSeq(seq, 2, Len(seq))

\* allStrokes.splice(i, 1), zero-based.
splice1(seq, i) == SubSeq(seq, 1, i) \o SubSeq(seq, i + 2, Len(seq))

\* Mutant of setLast: lastY takes offsetX.
setLastTypo(c, ev) == [c EXCEPT !.lastX = ev.offsetX, !.lastY = ev.offsetX]

\* lastX = offsetX; lastY = offsetY
setLast(c, ev) == [c EXCEPT !.lastX = ev.offsetX, !.lastY = ev.offsetY]

erase(c, ev) ==
    IF ~c.isErasing THEN c
    ELSE LET c0 == [c EXCEPT !.did.at = ev.pos] IN
    IF withinSquare(ev.offsetX, ev.offsetY, c.lastX, c.lastY, Px(moveThreshold))
    THEN [c0 EXCEPT !.did.erase = "suppressed"]
    ELSE LET t == getTile(c.onScreenTiles, ev.offsetX, ev.offsetY) IN
    IF t = 0
    THEN [c0 EXCEPT !.threw = TRUE, !.did.erase = "notile"]
    ELSE LET currentTile == c.onScreenTiles[t] IN
    IF TileIsEmpty(currentTile)
    THEN [c0 EXCEPT !.did.erase = "emptytile"]
    ELSE LET c1 == setLast(c0, ev)
             allStrokes == currentTile.strokes
             i == scanFrom(currentTile.strokes, numElements(currentTile) - 1,
                           ev.offsetX, ev.offsetY, Px(eraseSize))
         IN IF i < 0
            THEN [c1 EXCEPT !.did.erase = "miss"]
            ELSE [c1 EXCEPT
                    !.redrawn = [called |-> TRUE, strokes |-> splice1(allStrokes, i)],
                    !.onScreenTiles[t] =
                        removeStroke(currentTile, At(currentTile.strokes, i).id),
                    !.did.erase = "hit",
                    !.erased = Append(c1.erased,
                                      [id |-> At(currentTile.strokes, i).id,
                                       at |-> ev.pos])]

\* did.began: the event begins an erase gesture (isErasing was false).
startErase(c, ev) ==
    erase([c EXCEPT !.isErasing = TRUE, !.did.began = ~c.isErasing], ev)

\* Mutant of endErase: the last erase position is reset with the gesture.
endEraseResetsLast(c) == [c EXCEPT !.isErasing = FALSE, !.lastX = 0, !.lastY = 0]

endErase(c) == [c EXCEPT !.isErasing = FALSE]

\* ----------------------------------------------------------- mouse events

pointerDown(c, ev) ==
    IF ev.button = 0 THEN startDraw(c, ev)
    ELSE IF ev.button = 2 THEN startErase(c, ev)
    ELSE c

\* Mutant of pointerUp: button -1 (pointer-leave) ends the erase only.
pointerUpButtonsOnly(c, ev) ==
    LET c1 == IF ev.button = 0 THEN endDraw(c) ELSE c
    IN IF ev.button = 2 \/ ev.button = -1 THEN endErase(c1) ELSE c1

pointerUp(c, ev) ==
    LET c1 == IF ev.button = 0 \/ ev.button = -1 THEN endDraw(c) ELSE c
    IN IF ev.button = 2 \/ ev.button = -1 THEN endErase(c1) ELSE c1

pointerMove(c, ev) == erase(draw(c, ev), ev)

\* ---------------------------------------------------------- the behaviour

Becomes(c) ==
    /\ isDrawing' = c.isDrawing
    /\ isErasing' = c.isErasing
    /\ currStroke' = c.currStroke
    /\ masterId' = c.masterId
    /\ onScreenTiles' = c.onScreenTiles
    /\ lastX' = c.lastX
    /\ lastY' = c.lastY
    /\ redrawn' = c.redrawn
    /\ threw' = c.threw
    /\ did' = c.did
    /\ gesture' = c.gesture
    /\ erased' = c.erased
    /\ nCaptured' = c.nCaptured
    /\ call' = call

\* The component after its first render and its mount effect (line 321).
Init ==
    /\ isDrawing = FALSE
    /\ isErasing = FALSE
    /\ currStroke = NewStroke(0)
    /\ masterId = 1
    /\ onScreenTiles = <<NewTile(0, 0)>>
    /\ lastX = 0
    /\ lastY = 0
    /\ redrawn = NoRedraw
    /\ threw = FALSE
    /\ did = [leave |-> FALSE, began |-> FALSE, draw |-> "none",
              erase |-> "none", at |-> NoEvent, gesture |-> NoGesture]
    /\ gesture = NoGesture
    /\ erased = <<>>
    /\ nCaptured = 0
    /\ call = NoCall

\* Whether the bound leaves room to capture one more point.
CanCapture == nCaptured < MaxPoints

\* The positions an event may carry when it would capture a point.
Capturing(pos) == CanCapture /\ pos \in DrawPositions

PointerDown(button, pos) ==
    /\ button = 0 => Capturing(pos)
    /\ Becomes(pointerDown(Enter(Canvas, "pointerDown"), Event(button, pos)))

\* pointerUp reads only the button of its event.
PointerUp(button) ==
    /\ button \in UpButtons
    /\ Becomes(pointerUp(Enter(Canvas, "pointerUp"), Event(button, <<0, 0>>)))

PointerMove(pos) ==
    /\ isDrawing => Capturing(pos)
    /\ Becomes(pointerMove(Enter(Canvas, "pointerMove"), Event(-1, pos)))

\* onPointerLeave is pointerUp too; a pointer leaving the canvas changes no
\* button, so its event carries button -1, the value lines 181-182 test for.
PointerLeave ==
    /\ LeaveButton \notin UpButtons
    /\ Becomes(pointerUp(Enter(Canvas, "pointerLeave"), Event(LeaveButton, <<0, 0>>)))

Next ==
    \/ \E b \in DownButtons, pos \in Positions : PointerDown(b, pos)
    \/ \E b \in UpButtons : PointerUp(b)
    \/ \E pos \in Positions : PointerMove(pos)
    \/ PointerLeave

Spec == Init /\ [][Next]_vars

\* ------------------------------------------ the classes, called directly

\* Stroke and Tile are classes of their own: the specifications below call
\* their methods directly, on one Stroke (currStroke) and on one Tile
\* (onScreenTiles[1]), with arguments the handlers of the component never
\* pass.  The rest of the component stays as constructed.

\* A direct call that returned result.  No method of either class has a throw
\* statement, and an array read of JavaScript throws at no index.
MethodCall(op, arg, result) ==
    [op |-> op, arg |-> arg, threw |-> FALSE, result |-> result]

\* The vertices given to a stroke called directly, in pixels.
CornerPositions == {<<0, 0>>, <<10, 0>>, <<10, 10>>, <<0, 10>>}

\* The indices asked of getPathVertex: one below and one above every length.
VertexIndices == (-1)..MaxPoints

StrokeAddToPath(pos) ==
    /\ call.op # "smoothPath"
    /\ getLength(currStroke) < MaxPoints
    /\ currStroke' = addToPath(currStroke, Px(pos[1]), Px(pos[2]))
    /\ call' = MethodCall("addToPath", <<>>, <<>>)
    /\ UNCHANGED <<isDrawing, isErasing, masterId, onScreenTiles, lastX, lastY,
                   redrawn, threw, did, gesture, erased, nCaptured>>

\* smoothPath is called once on a stroke (endDraw), after its last vertex.
StrokeSmoothPath ==
    /\ call.op # "smoothPath"
    /\ currStroke' = smoothPath(currStroke)
    /\ call' = MethodCall("smoothPath", currStroke.path, <<>>)
    /\ UNCHANGED <<isDrawing, isErasing, masterId, onScreenTiles, lastX, lastY,
                   redrawn, threw, did, gesture, erased, nCaptured>>

StrokeGetPathVertex(index) ==
    /\ call.op # "smoothPath"
    /\ call' = MethodCall("getPathVertex", <<index>>,
                          getPathVertex(currStroke, index))
    /\ UNCHANGED <<isDrawing, isErasing, currStroke, masterId, onScreenTiles,
                   lastX, lastY, redrawn, threw, did, gesture, erased,
                   nCaptured>>

StrokeNext ==
    \/ \E pos \in CornerPositions : StrokeAddToPath(pos)
    \/ StrokeSmoothPath
    \/ \E index \in VertexIndices : StrokeGetPathVertex(index)

\* One new Stroke() (id 0), as the component holds after construction.
StrokeSpec == Init /\ [][StrokeNext]_vars

\* Most strokes in the tile called directly, and the number of stroke ids.
MaxTileStrokes == 3

\* The origins of the tile called directly, in pixels: the component's tile
\* and the tile diagonally after it.
TileOrigins == {<<0, 0>>, <<TileSize, TileSize>>}

\* The coordinates asked of enclosesVertex, as offsets from the tile's start
\* in model units: just below the start, the start, the last whole pixel, the
\* last coordinate below the end, the end.
EdgeOffsets == {-1, 0, Px(TileSize - 1), Px(TileSize) - 1, Px(TileSize)}

\* The stroke object with a given id: an id belongs to one object (line 17).
TileStroke(id) == addToPath(NewStroke(id), Px(PA[1]), Px(PA[2]))

TileInit ==
    /\ \E o \in TileOrigins : onScreenTiles = <<NewTile(Px(o[1]), Px(o[2]))>>
    /\ isDrawing = FALSE
    /\ isErasing = FALSE
    /\ currStroke = NewStroke(0)
    /\ masterId = 1
    /\ lastX = 0
    /\ lastY = 0
    /\ redrawn = NoRedraw
    /\ threw = FALSE
    /\ did = [leave |-> FALSE, began |-> FALSE, draw |-> "none",
              erase |-> "none", at |-> NoEvent, gesture |-> NoGesture]
    /\ gesture = NoGesture
    /\ erased = <<>>
    /\ nCaptured = 0
    /\ call = NoCall

TileAddStroke(id) ==
    /\ numElements(onScreenTiles[1]) < MaxTileStrokes
    /\ onScreenTiles' = [onScreenTiles EXCEPT ![1] = addStroke(@, TileStroke(id))]
    /\ call' = MethodCall("addStroke", <<id>>, <<>>)
    /\ UNCHANGED <<isDrawing, isErasing, currStroke, masterId, lastX, lastY,
                   redrawn, threw, did, gesture, erased, nCaptured>>

TileRemoveStroke(id) ==
    /\ onScreenTiles' = [onScreenTiles EXCEPT ![1] = removeStroke(@, id)]
    /\ call' = MethodCall("removeStroke", <<id>>, <<>>)
    /\ UNCHANGED <<isDrawing, isErasing, currStroke, masterId, lastX, lastY,
                   redrawn, threw, did, gesture, erased, nCaptured>>

TileEnclosesVertex(dx, dy) ==
    LET x == onScreenTiles[1].startX + dx
        y == onScreenTiles[1].startY + dy
    IN /\ call' = MethodCall("enclosesVertex", <<x, y>>,
                             <<enclosesVertex(onScreenTiles[1], x, y)>>)
       /\ UNCHANGED <<isDrawing, isErasing, currStroke, masterId, onScreenTiles,
                      lastX, lastY, redrawn, threw, did, gesture, erased,
                      nCaptured>>

TileNext ==
    \/ \E id \in 0..(MaxTileStrokes - 1) : TileAddStroke(id)
    \/ \E id \in 0..(MaxTileStrokes - 1) : TileRemoveStroke(id)
    \/ \E dx \in EdgeOffsets, dy \in EdgeOffsets : TileEnclosesVertex(dx, dy)

TileSpec == TileInit /\ [][TileNext]_vars

\* ------------------------------------------------- the model's arithmetic

\* Every division of smoothPath from index i on is exact.
RECURSIVE exactFrom(_, _)
exactFrom(stroke, i) ==
    IF i < getLength(stroke)
    THEN LET p == stroke.path IN
         /\ (At(p, i*2-4) + 2 * At(p, i*2-2) + At(p, i*2)) % 4 = 0
         /\ (At(p, i*2-3) + 2 * At(p, i*2-1) + At(p, i*2+1)) % 4 = 0
         /\ LET b == bezier(At(p, i*2-4), At(p, i*2-3), At(p, i*2-2),
                            At(p, i*2-1), At(p, i*2), At(p, i*2+1))
            IN exactFrom([stroke EXCEPT
                            !.path = Put(Put(p, i*2-2, b.x), i*2-1, b.y)], i + 1)
    ELSE TRUE

\* Smoothing the stroke being captured loses nothing to integer division.
SmoothingExact == exactFrom(currStroke, 2)

\* The same for the stroke called directly, until it is smoothed.
StrokeSmoothingExact == call.op # "smoothPath" => exactFrom(currStroke, 2)

\* --------------------------------------------- vocabulary of the properties

\* The strokes of the only tile, oldest first.
Strokes == onScreenTiles[1].strokes

Dist(a, b) == IF a >= b THEN a - b ELSE b - a

\* The number of vertices of a stroke, and its k-th vertex (k from 1).
NumPoints(stroke) == Len(stroke.path) \div 2

PointX(stroke, k) == stroke.path[2 * k - 1]

PointY(stroke, k) == stroke.path[2 * k]

\* The stroke has a vertex within r pixels of pos on both axes.
PassesNear(stroke, pos, r) ==
    \E k \in 1..NumPoints(stroke) :
        /\ Dist(PointX(stroke, k), Px(pos[1])) <= Px(r)
        /\ Dist(PointY(stroke, k), Px(pos[2])) <= Px(r)

\* pos is within r pixels of the last processed erase position on both axes.
NearLast(pos, r) ==
    Dist(Px(pos[1]), lastX) <= Px(r) /\ Dist(Px(pos[2]), lastY) <= Px(r)

\* pos lies in [0, 2000) x [0, 2000), the bounds of the only tile.
InTheTile(pos) == pos[1] >= 0 /\ pos[1] < 2000 /\ pos[2] >= 0 /\ pos[2] < 2000

\* The last processed erase position is pos.
LastIs(pos) == lastX = Px(pos[1]) /\ lastY = Px(pos[2])

\* seq without its i-th element.
Without(seq, i) ==
    [k \in 1..(Len(seq) - 1) |-> IF k < i THEN seq[k] ELSE seq[k + 1]]

\* The i-th stroke is the newest stroke of the tile passing near pos.
NewestNear(i, pos) ==
    /\ i \in 1..Len(Strokes)
    /\ PassesNear(Strokes[i], pos, 5)
    /\ \A k \in (i + 1)..Len(Strokes) : ~PassesNear(Strokes[k], pos, 5)

\* This step ran erase past its isErasing guard, for an event at pos.
EraseRanAt(pos) == did'.at = pos

\* This step ran endDraw.
EndDrawRan == did'.draw \in {"empty", "commit"}

\* --------------------------------------------------------------- claims

\* C1 as stated: with strokes A (older) and B (newer) of the tile both
\* passing within 5 of P, a processed erase at P removes B and not A, and the
\* next erase at P, the event right after it, removes A.
C1_SecondEraseAtSamePointRemovesOlder ==
    [][\A pos \in Positions :
        /\ \A a, b \in 1..Len(Strokes) :
             ( /\ EraseRanAt(pos) /\ ~NearLast(pos, 5) /\ InTheTile(pos)
               /\ a < b /\ PassesNear(Strokes[a], pos, 5) /\ NewestNear(b, pos) )
             => Strokes' = Without(Strokes, b)
        /\ \A a \in 1..Len(Strokes) :
             ( /\ did.erase = "hit" /\ did.at = pos
               /\ EraseRanAt(pos) /\ NewestNear(a, pos) )
             => Strokes' = Without(Strokes, a)
      ]_vars

\* C1 as amended: with strokes A (older) and B (newer) of the tile both
\* passing within 5 of P, an erase at P that is not suppressed removes B and
\* not A; an erase at P right after an erase at P is suppressed and removes
\* nothing; a later erase at P that is not suppressed (the last erase position
\* has moved more than 5 away in between) removes the newest remaining stroke
\* near P, which is A.
C1_EraseNewestThenOlder ==
    [][\A pos \in Positions :
        /\ \A a, b \in 1..Len(Strokes) :
             ( /\ EraseRanAt(pos) /\ ~NearLast(pos, 5) /\ InTheTile(pos)
               /\ a < b /\ PassesNear(Strokes[a], pos, 5) /\ NewestNear(b, pos) )
             => /\ Strokes' = Without(Strokes, b)
                /\ \E k \in 1..Len(Strokes') : Strokes'[k] = Strokes[a]
        /\ \A a \in 1..Len(Strokes) :
             ( /\ erased # <<>> /\ erased[Len(erased)].at = pos
               /\ EraseRanAt(pos) /\ NewestNear(a, pos) )
             => IF NearLast(pos, 5)
                THEN Strokes' = Strokes /\ erased' = erased
                ELSE /\ Strokes' = Without(Strokes, a)
                     /\ erased' = Append(erased, [id |-> Strokes[a].id, at |-> pos])
      ]_vars

\* C1's case: a newer stroke and then an older one were erased, one after the
\* other, by erase events at the same point.
C1_Witness ==
    \E i \in 1..(Len(erased) - 1) :
        /\ erased[i].at = erased[i + 1].at
        /\ erased[i].id > erased[i + 1].id

\* C2: an erase event that is not suppressed, in a tile holding strokes,
\* removes the most recently inserted stroke that has a vertex within 5 of the
\* pointer on both axes, and removes nothing when no stroke has one.
C2_EraseRemovesNewestWithinRadius ==
    [][\A pos \in Positions :
        ( EraseRanAt(pos) /\ ~NearLast(pos, 5) /\ InTheTile(pos) /\ Strokes # <<>> )
        => IF \E i \in 1..Len(Strokes) : PassesNear(Strokes[i], pos, 5)
           THEN \E i \in 1..Len(Strokes) :
                    NewestNear(i, pos) /\ Strokes' = Without(Strokes, i)
           ELSE Strokes' = Strokes
      ]_vars

\* C2's case: an erase removed a stroke while a newer stroke, with no vertex
\* near the pointer, and an older one, with a vertex near it, stayed.
C2_Witness ==
    /\ did.erase = "hit"
    /\ \E i, j \in 1..Len(Strokes) :
          /\ Strokes[i].id > erased[Len(erased)].id
          /\ ~PassesNear(Strokes[i], did.at, 5)
          /\ Strokes[j].id < erased[Len(erased)].id
          /\ PassesNear(Strokes[j], did.at, 5)

\* C3: an erase event removes at most one stroke: the tile's strokes are
\* unchanged or are the strokes before it without exactly one of them.
C3_EraseRemovesAtMostOne ==
    [][\A pos \in Positions :
        EraseRanAt(pos)
        => \/ Strokes' = Strokes
           \/ \E i \in 1..Len(Strokes) : Strokes' = Without(Strokes, i)
      ]_vars

\* C3's case: an erase removed a stroke while at least two other strokes
\* passing within the radius of the pointer stayed.
C3_Witness ==
    /\ did.erase = "hit"
    /\ \E i, j \in 1..Len(Strokes) :
          /\ i # j
          /\ PassesNear(Strokes[i], did.at, 5)
          /\ PassesNear(Strokes[j], did.at, 5)

\* C4 as stated: past the suppression check, in a tile, the last erase
\* position becomes the event's position, whether or not the tile holds a
\* stroke and whether or not one is hit.
C4_LastSetUnconditionally ==
    [][\A pos \in Positions :
        ( EraseRanAt(pos) /\ ~NearLast(pos, 5) /\ InTheTile(pos) )
        => LastIs(pos)'
      ]_vars

\* C4 as amended: past the suppression check the last erase position becomes
\* the event's position when the tile under the pointer holds a stroke,
\* whether or not a stroke is hit; when that tile holds no stroke, or no tile
\* is under the pointer, the last erase position keeps its value.
C4_LastSetWhenTileHoldsStrokes ==
    [][\A pos \in Positions :
        ( EraseRanAt(pos) /\ ~NearLast(pos, 5) )
        => IF InTheTile(pos) /\ Strokes # <<>>
           THEN LastIs(pos)'
           ELSE lastX' = lastX /\ lastY' = lastY
      ]_vars

\* C4's case: an erase missed every stroke of a tile that holds strokes, and
\* the last erase position is the event's (one with x and y different).
C4_Witness ==
    /\ did.erase = "miss"
    /\ Strokes # <<>>
    /\ LastIs(did.at)
    /\ did.at[1] # did.at[2]

\* C5: an erase event within 5 of the last erase position on both axes changes
\* no tile, keeps the last erase position and redraws nothing; an event more
\* than 5 away on an axis is processed: in a tile that holds strokes it
\* becomes the last erase position.
C5_SuppressedEraseDoesNothing ==
    [][\A pos \in Positions :
        EraseRanAt(pos)
        => IF NearLast(pos, 5)
           THEN /\ onScreenTiles' = onScreenTiles
                /\ lastX' = lastX /\ lastY' = lastY
                /\ ~redrawn'.called
                /\ erased' = erased
           ELSE (InTheTile(pos) /\ Strokes # <<>>) => LastIs(pos)'
      ]_vars

\* C5's case: a suppressed erase with a stroke within the erase radius of the
\* pointer, at exactly 5 from the last erase position on one axis and at more
\* than 5 from it in Euclidean distance.
C5_Witness ==
    /\ did.erase = "suppressed"
    /\ \E i \in 1..Len(Strokes) : PassesNear(Strokes[i], did.at, 5)
    /\ LET dx == Dist(Px(did.at[1]), lastX)
           dy == Dist(Px(did.at[2]), lastY)
       IN /\ dx = Px(5) \/ dy = Px(5)
          /\ dx * dx + dy * dy > Px(5) * Px(5)

\* C6: an erase event that is not suppressed, at a position no tile covers,
\* ends without an error and changes no tile.
C6_EraseOutsideTilesIsNoOp ==
    [][\A pos \in Positions :
        ( EraseRanAt(pos) /\ ~NearLast(pos, 5) /\ ~InTheTile(pos) )
        => ~threw' /\ onScreenTiles' = onScreenTiles
      ]_vars

\* C7: every stroke of the tile has a vertex in the tile's bounds
\* [0, 2000) x [0, 2000).
C7_StoredStrokeHasPointInTile ==
    \A i \in 1..Len(Strokes) :
        \E k \in 1..NumPoints(Strokes[i]) :
            /\ PointX(Strokes[i], k) >= 0 /\ PointX(Strokes[i], k) < Px(2000)
            /\ PointY(Strokes[i], k) >= 0 /\ PointY(Strokes[i], k) < Px(2000)

\* C8: ending a gesture that began in Idle with one primary-button-down and
\* went on with n pointer-moves appends exactly one stroke to the tile, of
\* n+1 vertices, the first and the last at the first and last captured
\* positions.
C8_GestureCommitsOneStroke ==
    [][( gesture.simple /\ gesture.captured # <<>> /\ EndDrawRan )
        => LET cap == gesture.captured
               s == Strokes'[Len(Strokes')]
           IN /\ Len(Strokes') = Len(Strokes) + 1
              /\ SubSeq(Strokes', 1, Len(Strokes)) = Strokes
              /\ NumPoints(s) = Len(cap)
              /\ PointX(s, 1) = Px(cap[1][1])
              /\ PointY(s, 1) = Px(cap[1][2])
              /\ PointX(s, Len(cap)) = Px(cap[Len(cap)][1])
              /\ PointY(s, Len(cap)) = Px(cap[Len(cap)][2])
      ]_vars

\* C8's case: a gesture of a down and at least two moves was committed, and
\* smoothing moved an interior vertex off its captured position.
C8_Witness ==
    /\ did.draw = "commit"
    /\ did.gesture.simple
    /\ Len(did.gesture.captured) >= 3
    /\ Strokes # <<>>
    /\ LET s == Strokes[Len(Strokes)]
       IN /\ NumPoints(s) = Len(did.gesture.captured)
          /\ PointX(s, 2) # Px(did.gesture.captured[2][1])

\* C9: endDraw on an empty in-progress stroke leaves every tile, and so the
\* tile's strokes and their number, unchanged.
C9_EmptyStrokeNotStored ==
    [][( EndDrawRan /\ Len(currStroke.path) = 0 )
        => /\ onScreenTiles' = onScreenTiles
           /\ Len(currStroke'.path) = 0
      ]_vars

\* C9's case: endDraw found the in-progress stroke empty, in a tile that
\* holds strokes.
C9_Witness ==
    /\ did.draw = "empty"
    /\ Strokes # <<>>

\* C10: a pointer-leave during capture commits the captured points, smoothed,
\* as one stroke and leaves isDrawing and isErasing false, as a
\* primary-button-up ends capture; and no step drops captured points: the
\* in-progress stroke only grows until it is appended to the tile.
C10_LeaveFinalizesLikeUp ==
    [][/\ ( did'.leave /\ isDrawing )
          => /\ Strokes' = Append(Strokes, smoothPath(currStroke))
             /\ NumPoints(currStroke) > 0
             /\ ~isDrawing' /\ ~isErasing'
             /\ Len(currStroke'.path) = 0
       /\ ( isDrawing /\ ~isDrawing' )
          => Strokes' = Append(Strokes, smoothPath(currStroke))
       /\ \/ /\ Len(currStroke'.path) >= Len(currStroke.path)
             /\ SubSeq(currStroke'.path, 1, Len(currStroke.path)) = currStroke.path
          \/ /\ Len(Strokes') = Len(Strokes) + 1
             /\ NumPoints(Strokes'[Len(Strokes')]) = NumPoints(currStroke)
      ]_vars

\* C10's case: a pointer-leave committed a stroke of at least three vertices.
C10_Witness ==
    /\ did.leave
    /\ did.draw = "commit"
    /\ Strokes # <<>>
    /\ NumPoints(Strokes[Len(Strokes)]) >= 3
    /\ ~isDrawing /\ ~isErasing

\* ------------------------------------------------------------------ C11

\* How many times id occurs in the tile's strokeIDs.
CountID(tile, id) == Cardinality({i \in 1..Len(tile.strokeIDs) : tile.strokeIDs[i] = id})

\* C11 as claimed: adding to a tile a stroke whose id the tile already holds
\* does not duplicate it: afterwards the tile holds that id exactly once and
\* as many strokes as before.
C11_AddPresentIdDoesNotDuplicate ==
    [][\A id \in 0..(MaxTileStrokes - 1) :
         (/\ Includes(onScreenTiles[1].strokeIDs, id)
          /\ call'.op = "addStroke"
          /\ call'.arg = <<id>>)
         => /\ CountID(onScreenTiles'[1], id) = 1
            /\ numElements(onScreenTiles'[1]) = numElements(onScreenTiles[1])]_vars

\* ------------------------------------------------------------------ C12

\* C12 as claimed: reading the vertex of a stroke at an index outside
\* 0 <= index < getLength() fails with an error instead of returning a value.
C12_VertexOutOfRangeFails ==
    (/\ call.op = "getPathVertex"
     /\ ~(0 <= call.arg[1] /\ call.arg[1] < getLength(currStroke)))
    => call.threw

\* ------------------------------------------------------------------ C13

\* The ids of the strokes erased so far.
ErasedIDs == {erased[k].id : k \in 1..Len(erased)}

\* C13: stroke ids come from a counter that only grows and are never reused.
\* In every reachable state the ids of the strokes of the tile are pairwise
\* distinct and increase in insertion order; the stroke being captured, the
\* newest object, has an id above the id of every stored stroke and of every
\* erased one, and below the counter; no erased id is in the tile again and no
\* id was erased twice.
C13_IdsIncreaseNeverReused ==
    /\ \A i, j \in 1..Len(Strokes) : i < j => Strokes[i].id < Strokes[j].id
    /\ \A i \in 1..Len(Strokes) : Strokes[i].id < currStroke.id
    /\ \A id \in ErasedIDs : id < currStroke.id
    /\ currStroke.id < masterId
    /\ \A i \in 1..Len(Strokes) : Strokes[i].id \notin ErasedIDs
    /\ Cardinality(ErasedIDs) = Len(erased)
    /\ onScreenTiles[1].strokeIDs = [i \in 1..Len(Strokes) |-> Strokes[i].id]

\* A stroke was erased from between two others, and the tile holds a stroke
\* with a higher id than the erased one.
C13_Witness ==
    /\ erased # <<>>
    /\ Len(Strokes) >= 2
    /\ Strokes[1].id < erased[1].id
    /\ Strokes[Len(Strokes)].id > erased[1].id

\* ------------------------------------------------------------------ C14

\* C14: a tile contains (x, y) exactly when x0 <= x < x0 + S and
\* y0 <= y < y0 + S, for its start (x0, y0) and the tile size S: (x0 + S, y0)
\* and (x0, y0 + S) are outside, (x0, y0) and (x0 + S - 1, y0 + S - 1) inside.
C14_ContainmentHalfOpen ==
    call.op = "enclosesVertex" =>
        LET x0 == onScreenTiles[1].startX
            y0 == onScreenTiles[1].startY
            x == call.arg[1]
            y == call.arg[2]
            S == Px(TileSize)
            contained == call.result[1]
        IN /\ contained <=> (x0 <= x /\ x < x0 + S /\ y0 <= y /\ y < y0 + S)
           /\ (x = x0 + S /\ y = y0) => ~contained
           /\ (x = x0 /\ y = y0 + S) => ~contained
           /\ (x = x0 /\ y = y0) => contained
           /\ (x = x0 + S - Px(1) /\ y = y0 + S - Px(1)) => contained

\* The tile at (2000, 2000) was asked for (x0 + S, y0) and answered no.
C14_Witness ==
    /\ call.op = "enclosesVertex"
    /\ onScreenTiles[1].startX = Px(TileSize)
    /\ call.arg = <<onScreenTiles[1].startX + Px(TileSize), onScreenTiles[1].startY>>
    /\ call.result = <<FALSE>>

\* ------------------------------------------------------------------ C15

\* The x and y of point i of a path, i from 0 as in the claim.
PX(path, i) == path[2 * i + 1]

PY(path, i) == path[2 * i + 2]

\* The path [(0,0), (10,0), (10,10), (0,10)] and what the claim says smoothing
\* makes of it: [(0,0), (7.5,2.5), (6.875,8.125), (0,10)].
ExamplePath ==
    <<Px(0), Px(0), Px(10), Px(0), Px(10), Px(10), Px(0), Px(10)>>

ExampleSmoothed ==
    <<Px(0), Px(0), Px(15) \div 2, Px(5) \div 2,
      Px(55) \div 8, Px(65) \div 8, Px(0), Px(10)>>

\* C15: smoothPath keeps the length and the two end points of the path P it
\* is given and replaces every interior point i, from left to right, by
\* 0.25 * R[i-1] + 0.5 * P[i] + 0.25 * P[i+1], where R[i-1] is the point the
\* call has already stored at i-1 and P[i+1] the point not yet replaced; a
\* path of fewer than 3 points is unchanged, and the example path becomes
\* the example result.
C15_SmoothSequentialWeightedAverage ==
    call.op = "smoothPath" =>
        LET P == call.arg
            R == currStroke.path
            n == Len(P) \div 2
        IN /\ Len(R) = Len(P)
           /\ n < 3 => R = P
           /\ n >= 1 => /\ PX(R, 0) = PX(P, 0) /\ PY(R, 0) = PY(P, 0)
                        /\ PX(R, n - 1) = PX(P, n - 1)
                        /\ PY(R, n - 1) = PY(P, n - 1)
           /\ \A i \in 1..(n - 2) :
                /\ 4 * PX(R, i) = PX(R, i - 1) + 2 * PX(P, i) + PX(P, i + 1)
                /\ 4 * PY(R, i) = PY(R, i - 1) + 2 * PY(P, i) + PY(P, i + 1)
           /\ P = ExamplePath => R = ExampleSmoothed

\* The example path was smoothed: its point 1 is (7.5, 2.5), and 7.5 and 6.875
\* are whole numbers of model units.
C15_Witness ==
    /\ call.op = "smoothPath"
    /\ call.arg = ExamplePath
    /\ PX(currStroke.path, 1) * 2 = Px(15)
    /\ PX(currStroke.path, 2) * 8 = Px(55)

\* ------------------------------------------------------------------ C16

\* C16: an erase event that removes a stroke or calls redraw does both, and
\* the list it hands to redraw is the stroke list of the tile after the
\* removal: the list before it in the same order, without one stroke.
C16_RedrawGetsTileListAfterRemoval ==
    [][\A pos \in Positions :
         (EraseRanAt(pos) /\ (Strokes' # Strokes \/ redrawn'.called))
         => /\ redrawn'.called
            /\ redrawn'.strokes = Strokes'
            /\ \E i \in 1..Len(Strokes) : Strokes' = Without(Strokes, i)]_vars

\* An erase event removed a stroke from between two others and redrew the two.
C16_Witness ==
    /\ did.erase = "hit"
    /\ redrawn.called
    /\ Len(redrawn.strokes) = 2
    /\ redrawn.strokes[1].id < erased[Len(erased)].id
    /\ redrawn.strokes[2].id > erased[Len(erased)].id

\* ------------------------------------------------------------------ C17

\* This step ran startDraw, or draw past its isDrawing guard.
CaptureRan == did'.draw = "capture"

\* What erase alone makes of the state before this step, for an event at pos.
EraseAlone(pos) == erase(Enter(Canvas, "pointerMove"), Event(-1, pos))

\* C17: drawing and erasing touch disjoint state.  A step that runs erase
\* leaves isDrawing alone, and leaves currStroke alone unless the same event
\* also captures its position, which is then all that happens to currStroke.
\* A step that captures a point changes the tiles and lastX, lastY only as
\* erase alone does for that event: not at all when erase did not run.  The
\* stroke being captured is in no tile, and the stroke a commit stores is the
\* one that was being captured.
C17_DrawAndEraseTouchDisjointState ==
    [][/\ \A pos \in Positions :
            EraseRanAt(pos)
            => /\ isDrawing' = isDrawing
               /\ currStroke' = IF CaptureRan
                                THEN addToPath(currStroke, Px(pos[1]), Px(pos[2]))
                                ELSE currStroke
       /\ (CaptureRan /\ did'.at = NoEvent)
          => /\ onScreenTiles' = onScreenTiles
             /\ lastX' = lastX
             /\ lastY' = lastY
       /\ \A pos \in Positions :
            (CaptureRan /\ EraseRanAt(pos))
            => /\ onScreenTiles' = EraseAlone(pos).onScreenTiles
               /\ lastX' = EraseAlone(pos).lastX
               /\ lastY' = EraseAlone(pos).lastY
       /\ \A i \in 1..Len(Strokes') : Strokes'[i].id # currStroke'.id
       /\ did'.draw = "commit"
          => /\ Strokes'[Len(Strokes')].id = currStroke.id
             /\ \A i \in 1..Len(Strokes) : Strokes[i].id # currStroke.id]_vars

\* One pointer-move captured a point into the stroke and erased a stroke.
C17_Witness ==
    /\ did.draw = "capture"
    /\ did.erase = "hit"
    /\ isDrawing
    /\ isErasing
    /\ NumPoints(currStroke) >= 2

\* ------------------------------------------------------------------ C18

\* The ids of the strokes of the tile.
StoredIDs == {Strokes[i].id : i \in 1..Len(Strokes)}

\* C18: a stroke of the tile keeps its path for as long as it is in the tile,
\* whatever the event.  Only a commit adds a stroke: the stroke captured so
\* far, smoothed once, after every stroke already there, and currStroke is
\* then a new, empty stroke with another id.  A captured point goes to a
\* stroke that is not in the tile.
C18_CommittedPathNeverChanges ==
    [][/\ \A i \in 1..Len(Strokes), j \in 1..Len(Strokes') :
            Strokes[i].id = Strokes'[j].id => Strokes'[j].path = Strokes[i].path
       /\ did'.draw = "commit"
          => /\ Len(Strokes') = Len(Strokes) + 1
             /\ Strokes'[Len(Strokes')] = smoothPath(currStroke)
             /\ currStroke'.path = <<>>
             /\ currStroke'.id \notin StoredIDs' \cup {currStroke.id}
       /\ did'.draw # "commit" => Len(Strokes') <= Len(Strokes)
       /\ CaptureRan
          => /\ currStroke'.id = currStroke.id
             /\ currStroke.id \notin StoredIDs
             /\ currStroke'.id \notin StoredIDs']_vars

\* The tile holds a smoothed stroke of three points, its middle point moved
\* off both captured positions, while the next stroke is being captured.
C18_Witness ==
    /\ Len(Strokes) >= 1
    /\ NumPoints(Strokes[1]) = 3
    /\ PointX(Strokes[1], 2) \notin {Px(PA[1]), Px(POut[1])}
    /\ isDrawing
    /\ did.draw = "capture"
    /\ NumPoints(currStroke) >= 1

\* ------------------------------------------------------------------ C19

\* C19: between handlers isDrawing is true exactly when currStroke holds a
\* point.  Drawing begins only with the capture of a first point (a
\* primary-button-down) and ends only with endDraw (a primary-button-up or a
\* pointer-leave); after endDraw isDrawing is false and currStroke is empty,
\* and a new stroke if the previous one held a point.
C19_DrawingIffStrokeNonEmpty ==
    /\ [](isDrawing <=> ~StrokeIsEmpty(currStroke))
    /\ [][/\ (~isDrawing /\ isDrawing')
             => (CaptureRan /\ NumPoints(currStroke') = 1)
          /\ (isDrawing /\ ~isDrawing')
             => (EndDrawRan /\ currStroke'.id > currStroke.id)
          /\ EndDrawRan => (~isDrawing' /\ StrokeIsEmpty(currStroke'))]_vars

\* A pointer-leave ended a stroke of two points: Idle again, with a new and
\* empty currStroke.
C19_Witness ==
    /\ did.leave
    /\ did.draw = "commit"
    /\ NumPoints(Strokes[Len(Strokes)]) = 2
    /\ ~isDrawing
    /\ StrokeIsEmpty(currStroke)
    /\ currStroke.id = Strokes[Len(Strokes)].id + 1

\* ------------------------------------------------------------------ C20

\* C20: the last erase position starts at (0,0) and only an erase event that
\* is processed more than 5 away from it on some axis moves it, to the
\* position of that event: the end of an erase gesture leaves it as it is.  An
\* erase event within 5 of it on both axes removes nothing and redraws
\* nothing, whether it is the first erase event of the session near (0,0) or
\* the secondary-button-down of a later gesture near the position the gesture
\* before it processed last.
C20_LastErasePositionPersists ==
    /\ LastIs(<<0, 0>>)
    /\ [][/\ (lastX' # lastX \/ lastY' # lastY)
             => \E pos \in Positions :
                   EraseRanAt(pos) /\ ~NearLast(pos, 5) /\ LastIs(pos)'
          /\ (isErasing /\ ~isErasing') => (lastX' = lastX /\ lastY' = lastY)
          /\ \A pos \in Positions :
                (EraseRanAt(pos) /\ NearLast(pos, 5))
                => /\ Strokes' = Strokes
                   /\ ~redrawn'.called
                   /\ erased' = erased]_vars

\* A secondary-button-down began a new erase gesture within 5 of the position
\* the gesture before it processed last, with a stroke within 5 of the
\* pointer, and removed nothing.
C20_Witness ==
    /\ did.began
    /\ did.erase = "suppressed"
    /\ ~LastIs(<<0, 0>>)
    /\ erased # <<>>
    /\ \E i \in 1..Len(Strokes) : PassesNear(Strokes[i], did.at, 5)

\* The first erase event of the session, at (4,4) with a stroke at (4,4),
\* removed nothing: the last erase position is still (0,0).
C20_WitnessFirstErase ==
    /\ did.began
    /\ did.erase = "suppressed"
    /\ did.at = PA
    /\ LastIs(<<0, 0>>)
    /\ erased = <<>>
    /\ \E i \in 1..Len(Strokes) : PassesNear(Strokes[i], PA, 0)
====
